---- MODULE Spec2Model ----
\* A model of src/sdf_xarray/__init__.py: open_sdf_dataset, which turns the
\* mapping returned by sdf.read into attributes, coordinates and data
\* variables, and SDFEntrypoint.guess_can_open.
\*
\* Python strings are modelled as sequences of one-character strings so that
\* str.split, str.startswith and the f-string concatenation are computed, not
\* assumed.  A dict is modelled as the sequence of its items in insertion order.
EXTENDS Integers, Sequences, FiniteSets, TLC

VARIABLES
    file,             \* what sdf.read returned (never modified afterwards)
    drop_variables,   \* the drop_variables argument, a sequence of names
    data,             \* the local dict `data`, items in insertion order
    pc,               \* position in open_sdf_dataset
    i,                \* index of the running for loop (drop loop, items loop)
    attrs,            \* the local dict `attrs`
    coords,           \* the local dict `coords`
    data_vars,        \* the local dict `data_vars`, items in insertion order
    dim_size_lookup,  \* the local `dim_size_lookup` (as last bound)
    result,           \* "none" | "dataset" | "KeyError"
    ds,               \* the returned dataset, when result = "dataset"
    g_in,             \* guess_can_open: the argument
    g_pc,             \* guess_can_open: "idle" | "call" | "returned"
    g_out             \* guess_can_open: the value returned

vars == <<file, drop_variables, data, pc, i, attrs, coords, data_vars,
          dim_size_lookup, result, ds, g_in, g_pc, g_out>>

\* Bounds of the model.
MaxBlocks == 3
MaxMagic == 4

----------------------------------------------------------------------------
\* String helpers.

Min(a, b) == IF a <= b THEN a ELSE b

\* str.startswith
StartsWith(s, p) == Len(p) <= Len(s) /\ SubSeq(s, 1, Len(p)) = p

\* str.find for a single character: the first index holding c, 0 when none
Find(s, c) ==
    IF \E k \in 1..Len(s) : s[k] = c
    THEN CHOOSE k \in 1..Len(s) : s[k] = c /\ \A j \in 1..(k - 1) : s[j] # c
    ELSE 0

\* str.rfind for a single character: the last index holding c, 0 when none
RFind(s, c) ==
    IF \E k \in 1..Len(s) : s[k] = c
    THEN CHOOSE k \in 1..Len(s) : s[k] = c /\ \A j \in (k + 1)..Len(s) : s[j] # c
    ELSE 0

\* key.split("/", maxsplit=1)[-1]
Basename(key) ==
    LET k == Find(key, "/")
    IN  IF k = 0 THEN key ELSE SubSeq(key, k + 1, Len(key))

\* f"{label}_{base_name}"
FullName(label, base_name) == label \o <<"_">> \o base_name

\* zip of two and of three sequences: stops at the shortest
Zip2(a, b) == [k \in 1..Min(Len(a), Len(b)) |-> <<a[k], b[k]>>]
Zip3(a, b, c) ==
    [k \in 1..Min(Len(a), Min(Len(b), Len(c))) |-> <<a[k], b[k], c[k]>>]

----------------------------------------------------------------------------
\* Dict helpers.  An insertion-ordered dict is a sequence of [key, value];
\* attrs, coords and the lookups, whose order is never observed, are functions.

Keys(d) == {d[k].key : k \in DOMAIN d}
Has(d, key) == key \in Keys(d)
Get(d, key) == d[CHOOSE k \in DOMAIN d : d[k].key = key].value

\* the dict left by d.pop(key)
Pop(d, key) == SelectSeq(d, LAMBDA e : e.key # key)

\* data.pop(variable) in the drop loop
DropNameKeep(d, name) == d
DropName(d, name) == Pop(d, name)

\* d.pop(key, {}) : the value, or the empty dict when key is missing
PopDefault(d, key) == IF Has(d, key) THEN Get(d, key) ELSE <<>>

\* f[key] = value
SetItem(f, key, value) ==
    [x \in DOMAIN f \cup {key} |-> IF x = key THEN value ELSE f[x]]

\* f.update(g) : g's entries overwrite f's
UpdateKeepFirst(f, g) ==
    [x \in DOMAIN f \cup DOMAIN g |-> IF x \in DOMAIN f THEN f[x] ELSE g[x]]
Update(f, g) ==
    [x \in DOMAIN f \cup DOMAIN g |-> IF x \in DOMAIN g THEN g[x] ELSE f[x]]

----------------------------------------------------------------------------
\* The inputs: block names, blocks, and the mappings sdf.read can return.

K_Header == <<"H", "e", "a", "d", "e", "r">>
K_Run_info == <<"R", "u", "n", "_", "i", "n", "f", "o">>
K_CPU == <<"C", "P", "U">>
K_time == <<"t", "i", "m", "e">>
K_step == <<"s", "t", "e", "p">>
K_version == <<"v", "e", "r">>
K_GA == <<"G", "/", "A">>
K_GB == <<"G", "/", "B">>
K_MA == <<"M", "/", "A">>
K_CPUC == <<"C", "P", "U", "/", "C">>
K_CPUk == <<"C", "P", "U", "k">>
K_CPUv == <<"C", "P", "U", "/", "v">>
K_Ex == <<"E", "/", "x">>
K_Ey == <<"E", "/", "y">>
K_Ez == <<"E", "/", "z">>
K_Ew == <<"E", "/", "w">>
K_Ep == <<"E", "/", "p">>
K_Po == <<"P", "o">>
K_absent == <<"z", "z">>
L_X == <<"X">>
L_Y == <<"Y">>

\* A mesh's coordinate arrays are distinct objects: one per (mesh, axis).
MeshBlock(name, labels, dims) ==
    [type |-> "mesh", name |-> name, labels |-> labels, dims |-> dims,
     units |-> [k \in DOMAIN labels |-> "m"],
     data |-> [k \in DOMAIN labels |-> [array_of |-> name, axis |-> k]]]

ConstantBlock(name, value) == [type |-> "constant", name |-> name, data |-> value]

VariableBlock(name, dims, grid, grid_mid) ==
    [type |-> "variable", name |-> name, units |-> "V", dims |-> dims,
     data |-> [array_of |-> name, axis |-> 0], grid |-> grid, grid_mid |-> grid_mid]

OtherBlock(name) == [type |-> "other", name |-> name]

mesh_GA == MeshBlock(K_GA, <<L_X>>, <<3>>)
mesh_GB == MeshBlock(K_GB, <<L_X>>, <<2>>)
mesh_MA == MeshBlock(K_MA, <<L_X, L_Y>>, <<3, 2>>)
mesh_CPU == MeshBlock(K_CPUC, <<L_X>>, <<3>>)

\* The blocks a file may hold, each under its own name.
Pool ==
    { ConstantBlock(K_time, 10), ConstantBlock(K_CPUk, 11),
      mesh_GA, mesh_GB, mesh_MA, mesh_CPU,
      VariableBlock(K_Ex, <<3>>, mesh_GA, mesh_GB),
      VariableBlock(K_Ey, <<2>>, mesh_GA, mesh_GB),
      VariableBlock(K_Ez, <<4>>, mesh_GA, mesh_GB),
      VariableBlock(K_Ew, <<3, 2>>, mesh_MA, mesh_GB),
      VariableBlock(K_Ep, <<3>>, mesh_GA, mesh_CPU),
      VariableBlock(K_CPUv, <<4>>, mesh_GA, mesh_GB),
      OtherBlock(K_Po) }

Item(block) == [key |-> block.name, value |-> block]

HeaderDict == (K_time :> 1) @@ (K_step :> 1)
RunInfoDict == (K_time :> 2) @@ (K_version :> 2)

\* The metadata items at the head of the mapping: either may be missing.
MetaParts ==
    { <<>>,
      <<[key |-> K_Header, value |-> HeaderDict]>>,
      <<[key |-> K_Run_info, value |-> RunInfoDict]>>,
      <<[key |-> K_Header, value |-> HeaderDict],
        [key |-> K_Run_info, value |-> RunInfoDict]>> }

BlockSeqs ==
    { s \in UNION {[1..n -> Pool] : n \in 0..MaxBlocks} :
        \A a, b \in DOMAIN s : a # b => s[a].name # s[b].name }

Files == { m \o [k \in DOMAIN s |-> Item(s[k])] : m \in MetaParts, s \in BlockSeqs }

DropChoices ==
    { <<>>, <<K_GA>>, <<K_Ez>>, <<K_Header>>, <<K_time>>, <<K_absent>>,
      <<K_GA, K_Ez>>, <<K_GA, K_GA>> }

NoDataset == [data_vars |-> <<>>, coords |-> <<>>, attrs |-> <<>>]
NoInput == [kind |-> "none", path |-> <<>>, magic |-> [isNone |-> TRUE, bytes |-> <<>>]]

----------------------------------------------------------------------------
\* open_sdf_dataset

Init ==
    /\ file \in Files
    /\ drop_variables \in DropChoices
    /\ data = file
    /\ pc = "drop"
    /\ i = 1
    /\ attrs = <<>>
    /\ coords = <<>>
    /\ data_vars = <<>>
    /\ dim_size_lookup = <<>>
    /\ result = "none"
    /\ ds = NoDataset
    /\ g_in = NoInput
    /\ g_pc = "idle"
    /\ g_out = FALSE

\* for variable in drop_variables: data.pop(variable)   -- the name is present
DropVariable ==
    /\ pc = "drop"
    /\ i <= Len(drop_variables)
    /\ Has(data, drop_variables[i])
    /\ data' = DropName(data, drop_variables[i])
    /\ i' = i + 1
    /\ UNCHANGED <<file, drop_variables, pc, attrs, coords, data_vars,
                   dim_size_lookup, result, ds, g_in, g_pc, g_out>>

\* data.pop(variable) of a missing name raises KeyError out of the function
DropVariableMissing ==
    /\ pc = "drop"
    /\ i <= Len(drop_variables)
    /\ ~Has(data, drop_variables[i])
    /\ pc' = "done"
    /\ result' = "KeyError"
    /\ UNCHANGED <<file, drop_variables, data, i, attrs, coords, data_vars,
                   dim_size_lookup, ds, g_in, g_pc, g_out>>

\* attrs = {}; attrs.update(data.pop("Header", {}))
MergeHeader ==
    /\ pc = "drop"
    /\ i > Len(drop_variables)
    /\ attrs' = Update(<<>>, PopDefault(data, K_Header))
    /\ data' = Pop(data, K_Header)
    /\ pc' = "run_info"
    /\ UNCHANGED <<file, drop_variables, i, coords, data_vars,
                   dim_size_lookup, result, ds, g_in, g_pc, g_out>>

\* attrs.update(data.pop("Run_info", {})); data_vars = {}; coords = {}
MergeRunInfo ==
    /\ pc = "run_info"
    /\ attrs' = Update(attrs, PopDefault(data, K_Run_info))
    /\ data' = Pop(data, K_Run_info)
    /\ data_vars' = <<>>
    /\ coords' = <<>>
    /\ pc' = "loop"
    /\ i' = 1
    /\ UNCHANGED <<file, drop_variables, dim_size_lookup, result, ds,
                   g_in, g_pc, g_out>>

InLoop == pc = "loop" /\ i <= Len(data)
key == data[i].key
value == data[i].value

\* key.startswith("CPU")
IsCPUNever(k) == FALSE
IsCPU(k) == StartsWith(k, K_CPU)

\* if key.startswith("CPU"): continue
LoopSkipCPU ==
    /\ InLoop
    /\ IsCPU(key)
    /\ i' = i + 1
    /\ UNCHANGED <<file, drop_variables, data, pc, attrs, coords, data_vars,
                   dim_size_lookup, result, ds, g_in, g_pc, g_out>>

\* a mutation of LoopConstant: the constant is stored as a data variable
LoopConstantAsVariable ==
    /\ InLoop
    /\ ~IsCPU(key)
    /\ value.type = "constant"
    /\ data_vars' = Append(data_vars,
           [key |-> key, var_coords |-> <<>>,
            data |-> [array_of |-> key, axis |-> 0],
            data_attrs |-> [units |-> ""]])
    /\ i' = i + 1
    /\ UNCHANGED <<file, drop_variables, data, pc, attrs, coords,
                   dim_size_lookup, result, ds, g_in, g_pc, g_out>>

\* isinstance(value, sdf.BlockConstant): attrs[key] = value.data
LoopConstant ==
    /\ InLoop
    /\ ~IsCPU(key)
    /\ value.type = "constant"
    /\ attrs' = SetItem(attrs, key, value.data)
    /\ i' = i + 1
    /\ UNCHANGED <<file, drop_variables, data, pc, coords, data_vars,
                   dim_size_lookup, result, ds, g_in, g_pc, g_out>>

\* coords after the inner loop over zip(value.labels, value.data, value.units)
RECURSIVE AddCoords(_, _, _, _)
AddCoords(c, triples, base_name, k) ==
    IF k > Len(triples) THEN c
    ELSE LET label == triples[k][1]
             full_name == FullName(label, base_name)
         IN  AddCoords(
                 SetItem(c, full_name,
                     [name |-> full_name, data |-> triples[k][2],
                      long_name |-> label, units |-> triples[k][3]]),
                 triples, base_name, k + 1)

\* isinstance(value, sdf.BlockPlainMesh): one coords entry per axis
LoopMesh ==
    /\ InLoop
    /\ ~IsCPU(key)
    /\ value.type = "mesh"
    /\ coords' = AddCoords(coords, Zip3(value.labels, value.data, value.units),
                           Basename(key), 1)
    /\ i' = i + 1
    /\ UNCHANGED <<file, drop_variables, data, pc, attrs, data_vars,
                   dim_size_lookup, result, ds, g_in, g_pc, g_out>>

\* dim_size_lookup[dim_name][dim_size] = f"{dim_name}_{base}" for each pair of
\* zip(grid.dims, grid.labels); dim_size_lookup is a defaultdict(dict)
RECURSIVE AddLookup(_, _, _, _)
AddLookup(lookup, pairs, base_name, k) ==
    IF k > Len(pairs) THEN lookup
    ELSE LET dim_size == pairs[k][1]
             dim_name == pairs[k][2]
             inner == IF dim_name \in DOMAIN lookup THEN lookup[dim_name] ELSE <<>>
         IN  AddLookup(
                 SetItem(lookup, dim_name,
                     SetItem(inner, dim_size, FullName(dim_name, base_name))),
                 pairs, base_name, k + 1)

\* the lookup built for one variable block: primary mesh first, staggered second
LookupOf(v) ==
    AddLookup(
        AddLookup(<<>>, Zip2(v.grid.dims, v.grid.labels), Basename(v.grid.name), 1),
        Zip2(v.grid_mid.dims, v.grid_mid.labels), Basename(v.grid_mid.name), 1)

\* isinstance(value, sdf.BlockPlainVariable): dim_size_lookup is rebound, and
\* data_vars[key] holds a generator that has evaluated only its iterable,
\* zip(value.grid.labels, value.dims); its body reads dim_size_lookup when the
\* generator is consumed.
LoopVariable ==
    /\ InLoop
    /\ ~IsCPU(key)
    /\ value.type = "variable"
    /\ dim_size_lookup' = LookupOf(value)
    /\ data_vars' = Append(data_vars,
           [key |-> key, var_coords |-> Zip2(value.grid.labels, value.dims),
            data |-> value.data, data_attrs |-> [units |-> value.units]])
    /\ i' = i + 1
    /\ UNCHANGED <<file, drop_variables, data, pc, attrs, coords,
                   result, ds, g_in, g_pc, g_out>>

\* a block of any other type matches no branch
LoopOther ==
    /\ InLoop
    /\ ~IsCPU(key)
    /\ value.type \notin {"constant", "mesh", "variable"}
    /\ i' = i + 1
    /\ UNCHANGED <<file, drop_variables, data, pc, attrs, coords, data_vars,
                   dim_size_lookup, result, ds, g_in, g_pc, g_out>>

\* dim_size_lookup[dim_name][dim_size] can be read (a defaultdict: a missing
\* dim_name gives an empty dict, whose subscript then raises KeyError)
CanLookup(lookup, pair) ==
    /\ pair[1] \in DOMAIN lookup
    /\ pair[2] \in DOMAIN lookup[pair[1]]

\* consuming one generator against the lookup bound at that moment
Consumable(lookup, gen) == \A k \in DOMAIN gen : CanLookup(lookup, gen[k])
Consume(lookup, gen) == [k \in DOMAIN gen |-> lookup[gen[k][1]][gen[k][2]]]

\* ds = xr.Dataset(data_vars, attrs=attrs, coords=coords); return ds
\* The dataset constructor turns each var_coords generator into a tuple: the
\* lookups run here, against the dim_size_lookup of the last variable block.
Assemble ==
    /\ pc = "loop"
    /\ i > Len(data)
    /\ pc' = "done"
    /\ IF \A k \in DOMAIN data_vars : Consumable(dim_size_lookup, data_vars[k].var_coords)
       THEN /\ result' = "dataset"
            /\ ds' = [data_vars |->
                          [k \in DOMAIN data_vars |->
                              [key |-> data_vars[k].key,
                               dims |-> Consume(dim_size_lookup, data_vars[k].var_coords),
                               data |-> data_vars[k].data,
                               attrs |-> data_vars[k].data_attrs]],
                      coords |-> coords,
                      attrs |-> attrs]
       ELSE /\ result' = "KeyError"
            /\ ds' = ds
    /\ UNCHANGED <<file, drop_variables, data, i, attrs, coords, data_vars,
                   dim_size_lookup, g_in, g_pc, g_out>>

Next ==
    \/ DropVariable
    \/ DropVariableMissing
    \/ MergeHeader
    \/ MergeRunInfo
    \/ LoopSkipCPU
    \/ LoopConstant
    \/ LoopMesh
    \/ LoopVariable
    \/ LoopOther
    \/ Assemble

Spec == Init /\ [][Next]_vars

----------------------------------------------------------------------------
\* SDFEntrypoint.guess_can_open

\* b"SDF1"
SDF1 == <<83, 68, 70, 49>>

Ext_sdf == <<".", "s", "d", "f">>
Ext_SDF == <<".", "S", "D", "F">>

\* os.path.splitext(p)[1]: from the last dot of the last path component,
\* unless that component has only dots before it
SplitextExt(p) ==
    LET sepIndex == RFind(p, "/")
        dotIndex == RFind(p, ".")
    IN  IF /\ dotIndex > sepIndex
           /\ \E k \in (sepIndex + 1)..(dotIndex - 1) : p[k] # "."
        THEN SubSeq(p, dotIndex, Len(p))
        ELSE <<>>

\* The argument: a str path with what try_read_magic_number_from_path gives
\* for it (None, or the bytes read), or bytes, or a file object (both of which
\* give None).
FileNames ==
    { <<"a", ".", "s", "d", "f">>, <<"a", ".", "S", "D", "F">>,
      <<"a", ".", "S", "d", "f">>, <<".", "s", "d", "f">>,
      <<"a", ".", "s", "d", "f", "/", "b">>, <<"a">>,
      <<"a", ".", "s", "d", "f", ".", "g">>, <<"b", ".", "a", ".", "s", "d", "f">>,
      <<"d", "/", ".", ".", "s", "d", "f">>, <<"a", ".", "s", "d", "f", "x">> }

MagicBytes == UNION {[1..n -> {83, 68, 70, 49}] : n \in 0..MaxMagic}
None == [isNone |-> TRUE, bytes |-> <<>>]
Some(b) == [isNone |-> FALSE, bytes |-> b]

GuessInputs ==
    {[kind |-> "str", path |-> p, magic |-> m] :
        p \in FileNames, m \in {None} \cup {Some(b) : b \in MagicBytes}}
    \cup {[kind |-> "bytes", path |-> p, magic |-> None] : p \in FileNames}
    \cup {[kind |-> "object", path |-> <<>>, magic |-> None]}

\* a mutation of guess_can_open: the extension decides whenever the magic fails
guess_can_open_ext_first(arg) ==
    \/ ~arg.magic.isNone /\ StartsWith(arg.magic.bytes, SDF1)
    \/ arg.kind = "str" /\ SplitextExt(arg.path) \in {Ext_sdf, Ext_SDF}

guess_can_open(arg) ==
    IF ~arg.magic.isNone
    THEN StartsWith(arg.magic.bytes, SDF1)
    ELSE IF arg.kind = "object"
         THEN FALSE      \* os.path.splitext raises TypeError
         ELSE IF arg.kind = "bytes"
              THEN FALSE \* a bytes extension is in no set of str
              ELSE SplitextExt(arg.path) \in {Ext_sdf, Ext_SDF}

GuessInit ==
    /\ g_in \in GuessInputs
    /\ g_pc = "call"
    /\ g_out = FALSE
    /\ file = <<>>
    /\ drop_variables = <<>>
    /\ data = <<>>
    /\ pc = "idle"
    /\ i = 1
    /\ attrs = <<>>
    /\ coords = <<>>
    /\ data_vars = <<>>
    /\ dim_size_lookup = <<>>
    /\ result = "none"
    /\ ds = NoDataset

GuessCanOpen ==
    /\ g_pc = "call"
    /\ g_out' = guess_can_open(g_in)
    /\ g_pc' = "returned"
    /\ UNCHANGED <<file, drop_variables, data, pc, i, attrs, coords, data_vars,
                   dim_size_lookup, result, ds, g_in>>

GuessNext == GuessCanOpen

SpecGuess == GuessInit /\ [][GuessNext]_vars

----------------------------------------------------------------------------
\* Vocabulary of the properties, stated on the input (file, drop_variables)
\* and on the outcome, independently of the operators the actions use.

Range(f) == {f[k] : k \in DOMAIN f}

\* the name begins with the three characters C, P, U
HasCPUPrefix(k) == Len(k) >= 3 /\ k[1] = "C" /\ k[2] = "P" /\ k[3] = "U"

\* the part of a name after its first "/", the whole name when it has none
AfterFirstSlash(k) ==
    IF \E j \in 1..Len(k) : k[j] = "/"
    THEN LET j == CHOOSE j \in 1..Len(k) :
                      k[j] = "/" /\ \A h \in 1..(j - 1) : k[h] # "/"
         IN  [h \in 1..(Len(k) - j) |-> k[j + h]]
    ELSE k

CoordName(label, meshName) == label \o <<"_">> \o AfterFirstSlash(meshName)

\* the drop loop raises: some requested name is missing when its turn comes
DropRaises ==
    \E k \in DOMAIN drop_variables :
        \/ drop_variables[k] \notin Keys(file)
        \/ \E j \in 1..(k - 1) : drop_variables[j] = drop_variables[k]

Excluded(k) == k \in Range(drop_variables)

\* the names of the blocks that reach the classification by type
LiveKeys ==
    {k \in Keys(file) :
        ~Excluded(k) /\ k # K_Header /\ k # K_Run_info /\ ~HasCPUPrefix(k)}
LiveOfType(t) == {Get(file, k) : k \in {x \in LiveKeys : Get(file, x).type = t}}

\* the Header and Run_info mappings that are merged: empty when absent
MergedHeader ==
    IF K_Header \in Keys(file) /\ ~Excluded(K_Header) THEN Get(file, K_Header) ELSE <<>>
MergedRunInfo ==
    IF K_Run_info \in Keys(file) /\ ~Excluded(K_Run_info)
    THEN Get(file, K_Run_info) ELSE <<>>

\* mesh m has an axis labelled L of size S
MeshHas(m, L, S) == \E j \in DOMAIN m.labels : j \in DOMAIN m.dims /\ m.labels[j] = L /\ m.dims[j] = S

\* the axes of a variable block: label from its primary mesh, size its own
NAxes(v) == Len(v.dims)
AxisLabelled(v, a) == a \in DOMAIN v.grid.labels
AxisResolves(v, a) ==
    /\ AxisLabelled(v, a)
    /\ \/ MeshHas(v.grid, v.grid.labels[a], v.dims[a])
       \/ MeshHas(v.grid_mid, v.grid.labels[a], v.dims[a])
AllAxesResolve(v) == \A a \in 1..NAxes(v) : AxisResolves(v, a)

\* the coordinate name an axis is meant to resolve to: staggered mesh first
ExpectedCoord(v, a) ==
    IF MeshHas(v.grid_mid, v.grid.labels[a], v.dims[a])
    THEN CoordName(v.grid.labels[a], v.grid_mid.name)
    ELSE CoordName(v.grid.labels[a], v.grid.name)

Returned == pc = "done" /\ result = "dataset"
VarKeys(d) == {d[k].key : k \in DOMAIN d}
VarOf(d, k) == d[CHOOSE j \in DOMAIN d : d[j].key = k]

\* every mesh a variable block of the file refers to is itself a block of the
\* file, stored under its own name
BlockKeys == Keys(file) \ {K_Header, K_Run_info}
FileClosed ==
    \A k \in BlockKeys :
        Get(file, k).type = "variable" =>
            \A m \in {Get(file, k).grid, Get(file, k).grid_mid} :
                m.name \in Keys(file) /\ Get(file, m.name) = m

----------------------------------------------------------------------------
\* C1: when some variable block that reaches classification has an axis whose
\* (label, size) is in neither of its meshes, the call still returns a dataset,
\* which holds every variable block whose axes all resolve and omits the ones
\* with an unresolved axis.
C1_UnresolvedVariableIsOmitted ==
    (/\ pc = "done"
     /\ ~DropRaises
     /\ \E v \in LiveOfType("variable") : ~AllAxesResolve(v))
    => /\ result = "dataset"
       /\ \A v \in LiveOfType("variable") :
              AllAxesResolve(v) <=> v.name \in VarKeys(ds.data_vars)

\* C2: when every axis of every classified variable block resolves in the
\* block's own meshes, the coordinate list of each variable V has Len(V.dims)
\* entries and entry a is the coordinate resolved for V's axis a.
C2_ListMatchesAxes ==
    (/\ pc = "done"
     /\ ~DropRaises
     /\ \A v \in LiveOfType("variable") : AllAxesResolve(v))
    => /\ result = "dataset"
       /\ \A v \in LiveOfType("variable") :
              /\ v.name \in VarKeys(ds.data_vars)
              /\ LET dims == VarOf(ds.data_vars, v.name).dims
                 IN  /\ Len(dims) = NAxes(v)
                     /\ \A a \in 1..NAxes(v) : dims[a] = ExpectedCoord(v, a)

\* C3: in a returned dataset every axis of every classified mesh block has its
\* own coordinate entry, named label_basename and holding that axis's array,
\* so the coordinate entries are as many as the mesh axes.
C3_CoordinateNamesDistinct ==
    Returned =>
        /\ \A m \in LiveOfType("mesh") : \A a \in DOMAIN m.labels :
               LET n == CoordName(m.labels[a], m.name)
               IN  n \in DOMAIN ds.coords /\ ds.coords[n].data = m.data[a]
        /\ Cardinality(DOMAIN ds.coords) =
               Cardinality(UNION {{<<m.name, a>> : a \in DOMAIN m.labels} :
                                     m \in LiveOfType("mesh")})

\* C4: in a returned dataset, each axis of each variable with label L and
\* size S that one of the variable's meshes has is named L_<staggered base
\* name> when the staggered mesh has (L, S), else L_<primary base name>.
C4_StaggeredThenPrimary ==
    Returned =>
        \A k \in DOMAIN ds.data_vars :
            LET v == Get(file, ds.data_vars[k].key)
            IN  \A a \in DOMAIN ds.data_vars[k].dims :
                    AxisResolves(v, a) =>
                        ds.data_vars[k].dims[a] = ExpectedCoord(v, a)

\* C10: in a returned dataset built from a file that holds the meshes of its
\* variables, every coordinate name a data variable refers to is a key of the
\* coordinate set.
C10_ReferencedCoordinatesExist ==
    (Returned /\ FileClosed) =>
        \A k \in DOMAIN ds.data_vars :
            \A d \in Range(ds.data_vars[k].dims) : d \in DOMAIN ds.coords

----------------------------------------------------------------------------
\* what a block of the file stored under name n has put into the dataset d
ContributesNothing(n, d) ==
    /\ n \notin VarKeys(d.data_vars)
    /\ IF n \in {K_Header, K_Run_info}
       THEN \A a \in DOMAIN Get(file, n) :
                ~(a \in DOMAIN d.attrs /\ d.attrs[a] = Get(file, n)[a])
       ELSE LET b == Get(file, n)
            IN  /\ b.type = "constant" =>
                       ~(n \in DOMAIN d.attrs /\ d.attrs[n] = b.data)
                /\ b.type = "mesh" =>
                       \A c \in DOMAIN d.coords : d.coords[c].data \notin Range(b.data)
                /\ b.type = "variable" =>
                       \A k \in DOMAIN d.data_vars : d.data_vars[k].data # b.data

\* C5: a name in drop_variables that the file holds contributes nothing to the
\* attributes, coordinates or variables of the returned dataset; a name in
\* drop_variables that the file does not hold makes the call end in KeyError
\* with no dataset.
C5_ExcludedNamesContributeNothing ==
    pc = "done" =>
        /\ (\E k \in DOMAIN drop_variables : drop_variables[k] \notin Keys(file))
               => (result = "KeyError" /\ ds = NoDataset)
        /\ result = "dataset" =>
               \A n \in Range(drop_variables) \cap Keys(file) : ContributesNothing(n, ds)

\* a dataset with coordinates and variables returned after a mesh of the file
\* was excluded
C5_Witness ==
    /\ Returned
    /\ K_GA \in Range(drop_variables) \cap Keys(file)
    /\ DOMAIN ds.coords # {}
    /\ DOMAIN ds.data_vars # {}

\* C6: a block whose name starts with "CPU" never appears: its name is no
\* attribute key and no variable key, and no coordinate entry holds one of its
\* arrays, in the dicts being built and in the returned dataset.
C6_CPUBlocksNeverAppear ==
    \A k \in BlockKeys :
        HasCPUPrefix(k) =>
            /\ k \notin DOMAIN attrs /\ k \notin DOMAIN ds.attrs
            /\ k \notin VarKeys(data_vars) /\ k \notin VarKeys(ds.data_vars)
            /\ Get(file, k).type = "mesh" =>
                   /\ \A c \in DOMAIN coords :
                          coords[c].data \notin Range(Get(file, k).data)
                   /\ \A c \in DOMAIN ds.coords :
                          ds.coords[c].data \notin Range(Get(file, k).data)

\* a dataset returned from a file holding a CPU-prefixed constant, mesh and
\* variable
C6_Witness ==
    /\ Returned
    /\ {K_CPUk, K_CPUC, K_CPUv} \subseteq Keys(file)

\* C7 as stated: for every key that both merged blocks define, the attribute
\* of the returned dataset holds Run_info's value.
C7_RunInfoValueIsFinal ==
    Returned =>
        \A k \in DOMAIN MergedHeader \cap DOMAIN MergedRunInfo :
            k \in DOMAIN ds.attrs /\ ds.attrs[k] = MergedRunInfo[k]

\* C7 amended: Header and Run_info are never data variables or coordinates;
\* every key of either is an attribute of the returned dataset, and it holds
\* the value of a classified constant block of that name when there is one,
\* else Run_info's value when Run_info defines it, else Header's.
C7_RunInfoThenConstants ==
    /\ K_Header \notin VarKeys(data_vars) /\ K_Run_info \notin VarKeys(data_vars)
    /\ K_Header \notin DOMAIN coords /\ K_Run_info \notin DOMAIN coords
    /\ Returned =>
           \A k \in DOMAIN MergedHeader \cup DOMAIN MergedRunInfo :
               /\ k \in DOMAIN ds.attrs
               /\ ds.attrs[k] =
                      IF \E c \in LiveOfType("constant") : c.name = k
                      THEN (CHOOSE c \in LiveOfType("constant") : c.name = k).data
                      ELSE IF k \in DOMAIN MergedRunInfo
                           THEN MergedRunInfo[k]
                           ELSE MergedHeader[k]

\* both blocks merged, the shared key holding Run_info's value
C7_Witness ==
    /\ Returned
    /\ DOMAIN MergedHeader \cap DOMAIN MergedRunInfo # {}
    /\ \A k \in DOMAIN MergedHeader \cap DOMAIN MergedRunInfo :
           ds.attrs[k] = MergedRunInfo[k] /\ ds.attrs[k] # MergedHeader[k]

\* C9: once the loop has run, every classified block sits in the partition of
\* its type and in no other: a constant is an attribute under its name with
\* its value, a mesh has a coordinate entry per axis, a variable is a data
\* variable under its name; and the partitions hold nothing else.
C9_ClassifiedByType ==
    (pc = "done" /\ ~DropRaises) =>
        /\ \A c \in LiveOfType("constant") :
               /\ c.name \in DOMAIN attrs /\ attrs[c.name] = c.data
               /\ c.name \notin VarKeys(data_vars)
               /\ c.name \notin DOMAIN coords
        /\ \A m \in LiveOfType("mesh") :
               /\ \A a \in DOMAIN m.labels :
                      CoordName(m.labels[a], m.name) \in DOMAIN coords
               /\ m.name \notin DOMAIN attrs
               /\ m.name \notin VarKeys(data_vars)
        /\ \A v \in LiveOfType("variable") :
               /\ v.name \in VarKeys(data_vars)
               /\ VarOf(data_vars, v.name).data = v.data
               /\ v.name \notin DOMAIN attrs
               /\ \A c \in DOMAIN coords : coords[c].data # v.data
        /\ VarKeys(data_vars) = {v.name : v \in LiveOfType("variable")}
        /\ Len(data_vars) = Cardinality(LiveOfType("variable"))
        /\ \A c \in DOMAIN coords :
               \E m \in LiveOfType("mesh") : coords[c].data \in Range(m.data)
        /\ DOMAIN attrs =
               DOMAIN MergedHeader \cup DOMAIN MergedRunInfo
                   \cup {c.name : c \in LiveOfType("constant")}
        /\ result = "dataset" =>
               /\ ds.attrs = attrs
               /\ ds.coords = coords
               /\ VarKeys(ds.data_vars) = VarKeys(data_vars)

\* a dataset returned from a file with a constant, a mesh and a variable, all
\* three classified
C9_Witness ==
    /\ Returned
    /\ LiveOfType("constant") # {}
    /\ LiveOfType("mesh") # {}
    /\ LiveOfType("variable") # {}

----------------------------------------------------------------------------
\* guess_can_open

FirstFourAreSDF1(b) ==
    Len(b) >= 4 /\ b[1] = 83 /\ b[2] = 68 /\ b[3] = 70 /\ b[4] = 49

EndsWith(s, t) ==
    Len(t) <= Len(s) /\ \A k \in 1..Len(t) : s[Len(s) - Len(t) + k] = t[k]

\* p's extension is exactly e (a dot followed by letters): p ends with e, and
\* before e the last path component has a character that is not a dot
HasExtension(p, e) ==
    /\ EndsWith(p, e)
    /\ \E k \in 1..(Len(p) - Len(e)) :
           /\ p[k] # "." /\ p[k] # "/"
           /\ \A j \in k..(Len(p) - Len(e)) : p[j] # "/"

\* C8: guess_can_open returns true exactly when a magic number was read and
\* its first four bytes are SDF1, or when none could be read and the argument
\* is a path whose extension is exactly .sdf or .SDF.
C8_GuessCanOpen ==
    g_pc = "returned" =>
        (g_out <=>
            IF ~g_in.magic.isNone
            THEN FirstFourAreSDF1(g_in.magic.bytes)
            ELSE /\ g_in.kind = "str"
                 /\ \/ HasExtension(g_in.path, <<".", "s", "d", "f">>)
                    \/ HasExtension(g_in.path, <<".", "S", "D", "F">>))

\* a magic number that is not SDF1 read from a file named *.sdf: false
C8_Witness ==
    /\ g_pc = "returned"
    /\ ~g_in.magic.isNone
    /\ Len(g_in.magic.bytes) = 4
    /\ ~FirstFourAreSDF1(g_in.magic.bytes)
    /\ HasExtension(g_in.path, <<".", "s", "d", "f">>)
    /\ g_out = FALSE

====
